---- MODULE Spec2Model ----
(***************************************************************************)
(* State machine of src/App.tsx: the React component App of a Cantonese     *)
(* vocabulary trainer.  The variables are the component's useState cells    *)
(* and useRef cells, the browser's pending timers and the speech service's  *)
(* queue.  Every action is one event handler or one timer / speech          *)
(* callback, taken as a whole (React applies the handler's batched state    *)
(* updates before the next event is dispatched).                            *)
(***************************************************************************)
EXTENDS Integers, Sequences, FiniteSets, TLC

VARIABLES
  UNITS,                \* the catalog imported from ./constants (read-only)
  speechAvailable,      \* whether window.speechSynthesis exists
  view, appMode, selectedUnit, currentIndex, showCelebration,
  shuffledWords, quizScore, quizOptions, answeredCorrectly, selectedOptionId,
  wrongAnswers, highlightedCharIndex,
  timerRef, karaokeTimerRef,   \* the refs' timer ids, see Ref below
  timers,               \* the browser's pending setTimeout / setInterval
  speechQueue           \* window.speechSynthesis: utterances queued or playing

vars == <<UNITS, speechAvailable, view, appMode, selectedUnit, currentIndex,
          showCelebration, shuffledWords, quizScore, quizOptions,
          answeredCorrectly, selectedOptionId, wrongAnswers,
          highlightedCharIndex, timerRef, karaokeTimerRef, timers, speechQueue>>

\* The useState cells of one exercise / learn session and of the view.
sessionVars == <<view, appMode, selectedUnit, currentIndex, showCelebration,
                 shuffledWords, quizScore, quizOptions, answeredCorrectly,
                 selectedOptionId, wrongAnswers, highlightedCharIndex>>

----------------------------------------------------------------------------
(* Bounds of the model *)

\* Pending timeouts whose id the code does not keep (the 300 ms and 400 ms
\* ones): a handler that would schedule one more is not taken.
MaxUntracked == 1

----------------------------------------------------------------------------
(* Program constants *)

FirstCharDelay == 400      \* setTimeout(..., 400)
charInterval == 1200       \* const charInterval = 1200
DwellDelay == 5500         \* setTimeout(proceedQuiz, 5500)
LearnSpeakDelay == 300     \* setTimeout(() => speak(...), 300)
QuizLength == 10           \* .slice(0, 10)
DistractorCount == 3       \* .slice(0, 3)
ResultDivisor == 10        \* quizScore / 10

\* A cell of type T | null holds Null or Some(v); Get reads the value.
Null == <<>>
Some(v) == <<v>>
Get(cell) == cell[1]

----------------------------------------------------------------------------
(* Types (src/types.ts) and the catalog *)

\* interface Word { id; text; emoji }.  text is the sequence of its UTF-16
\* code units.
Word(id, text, emoji) == [id |-> id, text |-> text, emoji |-> emoji]

\* interface Unit { id; title; icon; words; color }: the display-only fields
\* title, icon and color are left out.
Unit(id, words) == [id |-> id, words |-> words]

\* The module ./constants, which exports UNITS, is not part of the sources:
\* the catalogs below stand for it.  Word ids are unique in a catalog.

\* One unit of a one-character word and a two-character word.
CatalogA ==
  << Unit(1, << Word("w1", <<"a">>, "e1"), Word("w2", <<"b", "c">>, "e2") >>) >>

\* The same words, one per unit.
CatalogB ==
  << Unit(1, << Word("w1", <<"a">>, "e1") >>),
     Unit(2, << Word("w2", <<"b", "c">>, "e2") >>) >>

Catalogs == {CatalogA, CatalogB}

\* A catalog without words and a catalog of a single word.
CatalogNone == <<>>

CatalogOne == << Unit(1, << Word("w1", <<"a">>, "e1") >>) >>

SmallCatalogs == {CatalogNone, CatalogOne, CatalogA}

\* A one-character word, a two-character word and a word long enough for
\* the dwell timer to cut its stepping short.
CatalogE ==
  << Unit(1, << Word("w1", <<"a">>, "e1"), Word("w2", <<"b", "c">>, "e2"),
                Word("w3", <<"d", "e", "f", "g", "h">>, "e3") >>) >>

ExerciseCatalogs == {CatalogA, CatalogE}

----------------------------------------------------------------------------
(* Array helpers *)

Min(a, b) == IF a < b THEN a ELSE b

RECURSIVE Flatten(_)
Flatten(ss) == IF ss = <<>> THEN <<>> ELSE Head(ss) \o Flatten(Tail(ss))

\* UNITS.flatMap(u => u.words)
allWords == Flatten([i \in 1..Len(UNITS) |-> UNITS[i].words])

\* undefined: what an array read past its end yields.  It has no field id:
\* reading one of it is the TypeError of the code.
Undefined == [undefined |-> TRUE]

\* arr[i], i counted from 0
At(arr, i) == IF i + 1 \in 1..Len(arr) THEN arr[i + 1] ELSE Undefined

\* Array.prototype.slice(0, n)
SliceTo(arr, n) == SubSeq(arr, 1, Min(n, Len(arr)))

\* A filter that drops nothing.
FilterNotId_KeepsAll(arr, id) == arr

\* Array.prototype.filter(w => w.id !== id)
RECURSIVE FilterNotId(_, _)
FilterNotId(arr, id) ==
  IF arr = <<>> THEN <<>>
  ELSE IF Head(arr).id # id THEN <<Head(arr)>> \o FilterNotId(Tail(arr), id)
       ELSE FilterNotId(Tail(arr), id)

\* arr without its element at position i (1-based).
Without(arr, i) == SubSeq(arr, 1, i - 1) \o SubSeq(arr, i + 1, Len(arr))

\* arr.sort(() => Math.random() - 0.5): the comparator is random, so the
\* result is some rearrangement of arr; all of them are outcomes.
RECURSIVE RandomSort(_)
RandomSort(arr) ==
  IF arr = <<>> THEN {<<>>}
  ELSE UNION { {<<arr[i]>> \o rest : rest \in RandomSort(Without(arr, i))} :
               i \in 1..Len(arr) }

\* text.split(''): one string per code unit.
Split(text) == [i \in 1..Len(text) |-> <<text[i]>>]

----------------------------------------------------------------------------
(* Timers.  A pending timer is a record: its id, its kind, the time left     *)
(* until it is due (ms) and the values its callback closed over.            *)

TimerKinds == {"first", "karaoke", "dwell", "learnSpeak"}

Timer(id, kind, rem, chars, step, idx, words) ==
  [id |-> id, kind |-> kind, rem |-> rem, chars |-> chars, step |-> step,
   idx |-> idx, words |-> words]

\* Timer ids are positive numbers, distinct among the pending timers.
UsedIds == {t.id : t \in timers}

\* The value of a ref that holds id when ts are the pending timers.  The
\* code never resets a ref, and the browser never hands an id out twice: the
\* id of a timer that is gone denotes nothing, and clearTimeout /
\* clearInterval of it does nothing, exactly like the call skipped for null.
\* Such a ref is therefore written 0, like null.
Ref(id, ts) == IF \E t \in ts : t.id = id THEN id ELSE 0

FreshId(used) == CHOOSE n \in 1..(Cardinality(used) + 1) :
                   /\ n \notin used
                   /\ \A m \in 1..(n - 1) : m \in used

\* clearTimeout(id) / clearInterval(id): one id space, unknown ids ignored.
ClearTimer(ts, id) == {t \in ts : t.id # id}

\* A clearTimeout / clearInterval that cancels nothing.
ClearRef_Nothing(ts, ref) == ts

\* if (ref.current) clearTimeout(ref.current)
ClearRef(ts, ref) == IF ref # 0 THEN ClearTimer(ts, ref) ELSE ts

Untracked(ts) == {t \in ts : t.kind \in {"first", "learnSpeak"}}

RECURSIVE GCD(_, _)
GCD(a, b) == IF b = 0 THEN a ELSE GCD(b, a % b)

\* Time passes in steps of the largest span that divides every delay.
Granule == GCD(GCD(FirstCharDelay, charInterval),
               GCD(DwellDelay, LearnSpeakDelay))

\* The time until the next pending timer is due.
MinRem(ts) == CHOOSE m \in {t.rem : t \in ts} : \A t \in ts : m <= t.rem

\* The pending timers after a span d has passed.
Elapse(ts, d) == {[t EXCEPT !.rem = @ - d] : t \in ts}

\* The spans that can pass before an event handler runs: a handler runs at
\* any moment up to the one at which the next timer is due.
Moments(ts) ==
  IF ts = {} THEN {0} ELSE {k * Granule : k \in 0..(MinRem(ts) \div Granule)}

----------------------------------------------------------------------------
(* The speech service (window.speechSynthesis) and speak().  speechQueue    *)
(* holds the texts of the utterances that are queued or playing.  The cell  *)
(* isSpeaking, written by onstart / onend and read only by the markup, is   *)
(* not modelled.                                                            *)

\* window.speechSynthesis.cancel(): every queued or playing utterance goes.
CancelSpeech(q) == <<>>

\* A speak that queues behind the utterances in flight.
speak_Queues(q, text) ==
  IF ~speechAvailable THEN q ELSE Append(q, text)

\* speak(text): without a speech service nothing happens; otherwise the
\* previous utterance is cancelled and the new one is queued.
speak(q, text) ==
  IF ~speechAvailable THEN q ELSE Append(CancelSpeech(q), text)

\* The utterance at the head of the queue has been spoken to its end.
utteranceEnds ==
  /\ speechQueue # <<>>
  /\ speechQueue' = Tail(speechQueue)
  /\ UNCHANGED <<UNITS, speechAvailable, sessionVars, timerRef,
                 karaokeTimerRef, timers>>

----------------------------------------------------------------------------
(* Initial state: the useState / useRef initial values                      *)

InitWith(catalogs) ==
  /\ UNITS \in catalogs
  /\ speechAvailable \in BOOLEAN
  /\ view = "main_menu"
  /\ appMode = "learn"
  /\ selectedUnit = Null
  /\ currentIndex = 0
  /\ showCelebration = FALSE
  /\ shuffledWords = <<>>
  /\ quizScore = 0
  /\ quizOptions = <<>>
  /\ answeredCorrectly = Null
  /\ selectedOptionId = Null
  /\ wrongAnswers = <<>>
  /\ highlightedCharIndex = -1
  /\ timerRef = 0
  /\ karaokeTimerRef = 0
  /\ timers = {}
  /\ speechQueue = <<>>

Init == InitWith(Catalogs)

----------------------------------------------------------------------------
(* Exercise: option generation, start, answer, advance                      *)

envVars == <<UNITS, speechAvailable>>

\* The body of generateGlobalOptions with pool for allWords: the values it
\* can hand to setQuizOptions.
optionsFrom(pool, correctWord) ==
  UNION { RandomSort(<<correctWord>> \o SliceTo(d, DistractorCount)) :
            d \in RandomSort(FilterNotId(pool, correctWord.id)) }

\* generateGlobalOptions(correctWord)
generateGlobalOptions(correctWord) == optionsFrom(allWords, correctWord)

\* [...allWords].sort(() => Math.random() - 0.5).slice(0, 10)
ShuffledRuns == {SliceTo(p, QuizLength) : p \in RandomSort(allWords)}

\* startGlobalChallenge: the buttons of the main menu and of the result view.
\* Without a speech service window.speechSynthesis.cancel() throws after the
\* two timers were cleared and before any state is set.
startGlobalChallenge ==
  /\ view \in {"main_menu", "result"}
  /\ timers' = ClearRef(ClearRef(timers, timerRef), karaokeTimerRef)
  /\ timerRef' = Ref(timerRef, timers')
  /\ karaokeTimerRef' = Ref(karaokeTimerRef, timers')
  /\ IF ~speechAvailable
     THEN UNCHANGED <<envVars, sessionVars, speechQueue>>
     ELSE /\ speechQueue' = CancelSpeech(speechQueue)
          /\ appMode' = "exercise"
          /\ selectedUnit' = Null
          /\ currentIndex' = 0
          /\ quizScore' = 0
          /\ wrongAnswers' = <<>>
          /\ highlightedCharIndex' = -1
          /\ \E shuffled \in ShuffledRuns :
               /\ shuffledWords' = shuffled
               /\ quizOptions' \in generateGlobalOptions(At(shuffled, 0))
          /\ view' = "exercise"
          /\ answeredCorrectly' = Null
          /\ selectedOptionId' = Null
          /\ UNCHANGED <<envVars, showCelebration>>

\* The exercise view cannot be rendered when an option is undefined
\* (option.id, line 390) or when there are options but no current word
\* (currentWord.id, line 391): the render throws and no button of the view
\* exists.
renderThrows ==
  /\ view = "exercise"
  /\ \/ \E i \in 1..Len(quizOptions) : quizOptions[i] = Undefined
     \/ quizOptions # <<>> /\ At(shuffledWords, currentIndex) = Undefined

\* Which views render a button bound to goHome (lines 269, 354, 485).
goHomeOffered ==
  view \in {"unit_selection", "exercise", "result"} /\ ~renderThrows

\* goHome.  Without a speech service it throws like startGlobalChallenge.
goHome ==
  /\ goHomeOffered
  /\ timers' = ClearRef(ClearRef(timers, timerRef), karaokeTimerRef)
  /\ timerRef' = Ref(timerRef, timers')
  /\ karaokeTimerRef' = Ref(karaokeTimerRef, timers')
  /\ IF ~speechAvailable
     THEN UNCHANGED <<envVars, sessionVars, speechQueue>>
     ELSE /\ speechQueue' = CancelSpeech(speechQueue)
          /\ view' = "main_menu"
          /\ selectedUnit' = Null
          /\ showCelebration' = FALSE
          /\ UNCHANGED <<envVars, appMode, currentIndex, shuffledWords,
                         quizScore, quizOptions, answeredCorrectly,
                         selectedOptionId, wrongAnswers, highlightedCharIndex>>

\* The timers handleAnswer schedules for correctWord: the 400 ms timeout,
\* the interval (only for a word of several characters) and the dwell
\* timeout, whose callback proceedQuiz closed over currentIndex and
\* shuffledWords.
AnswerTimers(correctWord, id1, id2, id3) ==
  LET chars == Split(correctWord.text)
  IN {Timer(id1, "first", FirstCharDelay, chars, 0, 0, <<>>)}
     \cup (IF Len(chars) > 1
           THEN {Timer(id2, "karaoke", charInterval, chars, 1, 0, <<>>)}
           ELSE {})
     \cup {Timer(id3, "dwell", DwellDelay, <<>>, 0, currentIndex,
                 shuffledWords)}

\* A comparison of the option with itself.
isCorrect_Always(option, correctWord) == option.id = option.id

\* const isCorrect = option.id === correctWord.id
isCorrect(option, correctWord) == option.id = correctWord.id

\* A list that grows at its front: [correctWord, ...prev].
Missed_Prepend(prev, correctWord) == <<correctWord>> \o prev

\* setWrongAnswers(prev => [...prev, correctWord])
Missed(prev, correctWord) == Append(prev, correctWord)

\* The body of handleAnswer after its guard, run after the span d, while
\* fewer than cap timeouts without a stored id are pending.
\* playFeedbackSound only plays a tone and catches its own errors.
recordAnswerUpTo(cap, option, d) ==
  LET correctWord == shuffledWords[currentIndex + 1]
      chars == Split(correctWord.text)
      id1 == FreshId(UsedIds)
      id2 == FreshId(UsedIds \cup {id1})
      id3 == IF Len(chars) > 1 THEN FreshId(UsedIds \cup {id1, id2}) ELSE id2
  IN /\ Cardinality(Untracked(timers)) < cap
     /\ selectedOptionId' = Some(option.id)
     /\ answeredCorrectly' = Some(isCorrect(option, correctWord))
     /\ timers' = Elapse(timers, d) \cup
                  AnswerTimers(correctWord, id1, id2, id3)
     /\ karaokeTimerRef' = IF Len(chars) > 1 THEN id2 ELSE karaokeTimerRef
     /\ IF isCorrect(option, correctWord)
        THEN /\ quizScore' = quizScore + 1
             /\ UNCHANGED wrongAnswers
        ELSE /\ wrongAnswers' = Missed(wrongAnswers, correctWord)
             /\ UNCHANGED quizScore
     /\ timerRef' = id3
     /\ UNCHANGED <<envVars, view, appMode, selectedUnit, currentIndex,
                    showCelebration, shuffledWords, quizOptions,
                    highlightedCharIndex, speechQueue>>

recordAnswer(option, d) == recordAnswerUpTo(MaxUntracked, option, d)

\* A handler without the guard of handleAnswer.
handleAnswer_Unguarded(option, d) ==
  /\ view = "exercise"
  /\ recordAnswer(option, d)

\* handleAnswer(option), run after the span d: the option buttons of the
\* exercise view.  if (answeredCorrectly !== null) return;
handleAnswer(option, d) ==
  /\ view = "exercise"
  /\ IF answeredCorrectly # Null
     THEN UNCHANGED vars
     ELSE recordAnswer(option, d)

\* An option button is pressed.  When the question is already answered the
\* handler returns at once, whatever the moment.
answer ==
  /\ ~renderThrows
  /\ \E i \in 1..Len(quizOptions) :
       \E d \in (IF answeredCorrectly = Null THEN Moments(timers) ELSE {0}) :
         handleAnswer(quizOptions[i], d)

\* An option button is pressed by a learner quick enough to answer while
\* the 400 ms timeout of a question left behind is still pending: the same
\* handler, with room for one more pending timeout.
answerInHaste ==
  /\ ~renderThrows /\ view = "exercise"
  /\ \E i \in 1..Len(quizOptions) :
       \E d \in (IF answeredCorrectly = Null THEN Moments(timers) ELSE {0}) :
         IF answeredCorrectly # Null
         THEN UNCHANGED vars
         ELSE recordAnswerUpTo(MaxUntracked + 1, quizOptions[i], d)

\* Two variants of proceedQuiz: one adds 1 to currentIndex at the end of
\* the run as well, the other advances without resetting the answer.
proceedQuiz_CountsOn(idx, words, ts) ==
  IF idx < Len(words) - 1
  THEN /\ currentIndex' = idx + 1
       /\ answeredCorrectly' = Null
       /\ selectedOptionId' = Null
       /\ highlightedCharIndex' = -1
       /\ timers' = ClearRef(ts, karaokeTimerRef)
       /\ quizOptions' \in generateGlobalOptions(words[idx + 2])
       /\ UNCHANGED <<view, appMode, selectedUnit, showCelebration,
                      shuffledWords, quizScore, wrongAnswers>>
  ELSE /\ view' = "result"
       /\ timers' = ts
       /\ currentIndex' = idx + 1
       /\ UNCHANGED <<appMode, selectedUnit, showCelebration,
                      shuffledWords, quizScore, quizOptions, answeredCorrectly,
                      selectedOptionId, wrongAnswers, highlightedCharIndex>>

proceedQuiz_KeepsAnswer(idx, words, ts) ==
  IF idx < Len(words) - 1
  THEN /\ currentIndex' = idx + 1
       /\ highlightedCharIndex' = -1
       /\ timers' = ClearRef(ts, karaokeTimerRef)
       /\ quizOptions' \in generateGlobalOptions(words[idx + 2])
       /\ UNCHANGED <<view, appMode, selectedUnit, showCelebration,
                      shuffledWords, quizScore, wrongAnswers,
                      answeredCorrectly, selectedOptionId>>
  ELSE /\ view' = "result"
       /\ timers' = ts
       /\ UNCHANGED <<appMode, selectedUnit, currentIndex, showCelebration,
                      shuffledWords, quizScore, quizOptions, answeredCorrectly,
                      selectedOptionId, wrongAnswers, highlightedCharIndex>>

\* proceedQuiz as the dwell timer runs it: idx and words are the
\* currentIndex and shuffledWords its closure captured; ts are the timers
\* still pending.
proceedQuiz(idx, words, ts) ==
  IF idx < Len(words) - 1
  THEN /\ currentIndex' = idx + 1
       /\ answeredCorrectly' = Null
       /\ selectedOptionId' = Null
       /\ highlightedCharIndex' = -1
       /\ timers' = ClearRef(ts, karaokeTimerRef)
       /\ quizOptions' \in generateGlobalOptions(words[idx + 2])
       /\ UNCHANGED <<view, appMode, selectedUnit, showCelebration,
                      shuffledWords, quizScore, wrongAnswers>>
  ELSE /\ view' = "result"
       /\ timers' = ts
       /\ UNCHANGED <<appMode, selectedUnit, currentIndex, showCelebration,
                      shuffledWords, quizScore, quizOptions, answeredCorrectly,
                      selectedOptionId, wrongAnswers, highlightedCharIndex>>

----------------------------------------------------------------------------
(* Timer callbacks.  t is the timer that fires, ts the timers pending at    *)
(* that moment (t among them, all aged up to t's due time).                 *)

\* The 400 ms timeout of handleAnswer: highlight and speak character 0.
firstCharFires(t, ts) ==
  /\ highlightedCharIndex' = 0
  /\ speechQueue' = speak(speechQueue, t.chars[1])
  /\ timers' = ts \ {t}
  /\ UNCHANGED <<envVars, view, appMode, selectedUnit, currentIndex,
                 showCelebration, shuffledWords, quizScore, quizOptions,
                 answeredCorrectly, selectedOptionId, wrongAnswers, timerRef,
                 karaokeTimerRef>>

\* One run of the interval callback of handleAnswer; the interval stays
\* pending, due again after charInterval, unless it clears itself.
karaokeFires(t, ts) ==
  /\ IF t.step < Len(t.chars)
     THEN /\ highlightedCharIndex' = t.step
          /\ speechQueue' = speak(speechQueue, t.chars[t.step + 1])
          /\ timers' = (ts \ {t}) \cup
                       {[t EXCEPT !.step = @ + 1, !.rem = charInterval]}
     ELSE /\ timers' = ClearRef((ts \ {t}) \cup
                                {[t EXCEPT !.rem = charInterval]},
                                karaokeTimerRef)
          /\ UNCHANGED <<highlightedCharIndex, speechQueue>>
  /\ karaokeTimerRef' = Ref(karaokeTimerRef, timers')
  /\ UNCHANGED <<envVars, view, appMode, selectedUnit, currentIndex,
                 showCelebration, shuffledWords, quizScore, quizOptions,
                 answeredCorrectly, selectedOptionId, wrongAnswers, timerRef>>

\* A dwell timeout whose callback does nothing.
dwellFires_Idle(t, ts) ==
  /\ timers' = ts \ {t}
  /\ timerRef' = Ref(timerRef, timers')
  /\ karaokeTimerRef' = Ref(karaokeTimerRef, timers')
  /\ UNCHANGED <<envVars, sessionVars, speechQueue>>

\* The dwell timeout of handleAnswer runs proceedQuiz.
dwellFires(t, ts) ==
  /\ proceedQuiz(t.idx, t.words, ts \ {t})
  /\ timerRef' = Ref(timerRef, timers')
  /\ karaokeTimerRef' = Ref(karaokeTimerRef, timers')
  /\ UNCHANGED <<envVars, speechQueue>>

\* The 300 ms timeout of startLearnTask: speak the unit's first word.
learnSpeakFires(t, ts) ==
  /\ speechQueue' = speak(speechQueue, t.chars[1])
  /\ timers' = ts \ {t}
  /\ UNCHANGED <<envVars, sessionVars, timerRef, karaokeTimerRef>>

\* Time passes until the next pending timer is due, and the browser runs
\* its callback: Due(t0) holds for a timer no other precedes, and Now(t0)
\* is that timer at its due time.
Due(t0) == t0 \in timers /\ t0.rem = MinRem(timers)

Now(t0) == [t0 EXCEPT !.rem = 0]

firstCharTimerFires ==
  \E t0 \in timers :
    /\ Due(t0) /\ t0.kind = "first"
    /\ firstCharFires(Now(t0), Elapse(timers, t0.rem))

karaokeTimerFires ==
  \E t0 \in timers :
    /\ Due(t0) /\ t0.kind = "karaoke"
    /\ karaokeFires(Now(t0), Elapse(timers, t0.rem))

dwellTimerFires ==
  \E t0 \in timers :
    /\ Due(t0) /\ t0.kind = "dwell"
    /\ dwellFires(Now(t0), Elapse(timers, t0.rem))

learnSpeakTimerFires ==
  \E t0 \in timers :
    /\ Due(t0) /\ t0.kind = "learnSpeak"
    /\ learnSpeakFires(Now(t0), Elapse(timers, t0.rem))

----------------------------------------------------------------------------
(* Learn mode and the remaining buttons                                     *)

\* A learn button that only changes the view.
chooseLearn_KeepsMode ==
  /\ view = "main_menu"
  /\ view' = "unit_selection"
  /\ UNCHANGED <<envVars, appMode, selectedUnit, currentIndex,
                 showCelebration, shuffledWords, quizScore, quizOptions,
                 answeredCorrectly, selectedOptionId, wrongAnswers,
                 highlightedCharIndex, timerRef, karaokeTimerRef, timers,
                 speechQueue>>

\* Main menu, the learn button: setAppMode('learn'); setView('unit_selection')
chooseLearn ==
  /\ view = "main_menu"
  /\ appMode' = "learn"
  /\ view' = "unit_selection"
  /\ UNCHANGED <<envVars, selectedUnit, currentIndex, showCelebration,
                 shuffledWords, quizScore, quizOptions, answeredCorrectly,
                 selectedOptionId, wrongAnswers, highlightedCharIndex,
                 timerRef, karaokeTimerRef, timers, speechQueue>>

\* A startLearnTask that keeps the position of the session before it.
startLearnTask_KeepsIndex(unit, d) ==
  /\ Cardinality(Untracked(timers)) < MaxUntracked
  /\ appMode' = "learn"
  /\ selectedUnit' = Some(unit)
  /\ view' = "learn"
  /\ showCelebration' = FALSE
  /\ timers' = Elapse(timers, d) \cup
       {Timer(FreshId(UsedIds), "learnSpeak", LearnSpeakDelay,
              <<unit.words[1].text>>, 0, 0, <<>>)}
  /\ UNCHANGED <<envVars, currentIndex, shuffledWords, quizScore, quizOptions,
                 answeredCorrectly, selectedOptionId, wrongAnswers,
                 highlightedCharIndex, timerRef, karaokeTimerRef, speechQueue>>

\* startLearnTask(unit), run after the span d.
startLearnTask(unit, d) ==
  /\ Cardinality(Untracked(timers)) < MaxUntracked
  /\ appMode' = "learn"
  /\ selectedUnit' = Some(unit)
  /\ currentIndex' = 0
  /\ view' = "learn"
  /\ showCelebration' = FALSE
  /\ timers' = Elapse(timers, d) \cup
       {Timer(FreshId(UsedIds), "learnSpeak", LearnSpeakDelay,
              <<unit.words[1].text>>, 0, 0, <<>>)}
  /\ UNCHANGED <<envVars, shuffledWords, quizScore, quizOptions,
                 answeredCorrectly, selectedOptionId, wrongAnswers,
                 highlightedCharIndex, timerRef, karaokeTimerRef, speechQueue>>

\* Unit selection: one button per unit.
selectUnit ==
  /\ view = "unit_selection"
  /\ \E i \in 1..Len(UNITS) : \E d \in Moments(timers) :
       startLearnTask(UNITS[i], d)

\* The learn view is rendered when view === 'learn' && selectedUnit.
learnRendered == view = "learn" /\ selectedUnit # Null

\* Learn view, the back buttons (lines 298 and 318): setView('unit_selection')
backToUnits ==
  /\ learnRendered
  /\ view' = "unit_selection"
  /\ UNCHANGED <<envVars, appMode, selectedUnit, currentIndex,
                 showCelebration, shuffledWords, quizScore, quizOptions,
                 answeredCorrectly, selectedOptionId, wrongAnswers,
                 highlightedCharIndex, timerRef, karaokeTimerRef, timers,
                 speechQueue>>

\* A nextCard that starts over at the last card instead of celebrating.
nextCard_Wraps ==
  /\ learnRendered /\ ~showCelebration
  /\ currentIndex' = (currentIndex + 1) % Len(Get(selectedUnit).words)
  /\ speechQueue' =
       speak(speechQueue, Get(selectedUnit).words[currentIndex' + 1].text)
  /\ UNCHANGED <<envVars, view, appMode, selectedUnit, showCelebration,
                 shuffledWords, quizScore, quizOptions, answeredCorrectly,
                 selectedOptionId, wrongAnswers, highlightedCharIndex,
                 timerRef, karaokeTimerRef, timers>>

\* nextCard
nextCard ==
  /\ learnRendered /\ ~showCelebration
  /\ IF currentIndex < Len(Get(selectedUnit).words) - 1
     THEN /\ currentIndex' = currentIndex + 1
          /\ speechQueue' =
               speak(speechQueue, Get(selectedUnit).words[currentIndex + 2].text)
          /\ UNCHANGED showCelebration
     ELSE /\ showCelebration' = TRUE
          /\ UNCHANGED <<currentIndex, speechQueue>>
  /\ UNCHANGED <<envVars, view, appMode, selectedUnit, shuffledWords,
                 quizScore, quizOptions, answeredCorrectly, selectedOptionId,
                 wrongAnswers, highlightedCharIndex, timerRef, karaokeTimerRef,
                 timers>>

\* A prevCard that goes from the first card to the last one.
prevCard_Wraps ==
  /\ learnRendered /\ ~showCelebration
  /\ currentIndex' = (currentIndex + Len(Get(selectedUnit).words) - 1)
                       % Len(Get(selectedUnit).words)
  /\ speechQueue' =
       speak(speechQueue, Get(selectedUnit).words[currentIndex' + 1].text)
  /\ UNCHANGED <<envVars, view, appMode, selectedUnit, showCelebration,
                 shuffledWords, quizScore, quizOptions, answeredCorrectly,
                 selectedOptionId, wrongAnswers, highlightedCharIndex,
                 timerRef, karaokeTimerRef, timers>>

\* prevCard
prevCard ==
  /\ learnRendered /\ ~showCelebration
  /\ IF currentIndex > 0
     THEN /\ currentIndex' = currentIndex - 1
          /\ speechQueue' =
               speak(speechQueue, Get(selectedUnit).words[currentIndex].text)
     ELSE UNCHANGED <<currentIndex, speechQueue>>
  /\ UNCHANGED <<envVars, view, appMode, selectedUnit, showCelebration,
                 shuffledWords, quizScore, quizOptions, answeredCorrectly,
                 selectedOptionId, wrongAnswers, highlightedCharIndex,
                 timerRef, karaokeTimerRef, timers>>

\* Learn view, a tap on the card: speak(currentWord.text)
speakCard ==
  /\ learnRendered /\ ~showCelebration
  /\ speechQueue' =
       speak(speechQueue, Get(selectedUnit).words[currentIndex + 1].text)
  /\ UNCHANGED <<envVars, sessionVars, timerRef, karaokeTimerRef, timers>>

\* UNITS.findIndex(u => u.id === id), 0-based, -1 when there is none.
FindIndex(id) ==
  IF \E i \in 1..Len(UNITS) : UNITS[i].id = id
  THEN (CHOOSE i \in 1..Len(UNITS) :
          /\ UNITS[i].id = id
          /\ \A j \in 1..(i - 1) : UNITS[j].id # id) - 1
  ELSE -1

\* A next-unit button that starts the selected unit again.
goToNextUnit_Stays ==
  /\ learnRendered /\ showCelebration
  /\ \E d \in Moments(timers) : startLearnTask(Get(selectedUnit), d)

\* goToNextUnit: the celebration's next-unit button.
goToNextUnit ==
  /\ learnRendered /\ showCelebration
  /\ LET currentUnitIdx == FindIndex(Get(selectedUnit).id)
         nextUnit == UNITS[((currentUnitIdx + 1) % Len(UNITS)) + 1]
     IN \E d \in Moments(timers) : startLearnTask(nextUnit, d)

\* Result view: const ratio = quizScore / 10; const stars = ratio === 1 ? 3 :
\* ratio >= 0.7 ? 2 : ratio > 0 ? 1 : 0.  The quotient of two whole numbers
\* is compared exactly: num / den >= 0.7 is 10 * num >= 7 * den.
StepRating(num, den) ==
  IF num = den THEN 3
  ELSE IF 10 * num >= 7 * den THEN 2
  ELSE IF num > 0 THEN 1
  ELSE 0

stars == StepRating(quizScore, ResultDivisor)

\* Result view, a review button: speak(word.text)
speakMissed ==
  /\ view = "result"
  /\ \E i \in 1..Len(wrongAnswers) :
       speechQueue' = speak(speechQueue, wrongAnswers[i].text)
  /\ UNCHANGED <<envVars, sessionVars, timerRef, karaokeTimerRef, timers>>

----------------------------------------------------------------------------
Next ==
  \/ chooseLearn
  \/ startGlobalChallenge
  \/ goHome
  \/ selectUnit
  \/ backToUnits
  \/ nextCard
  \/ prevCard
  \/ speakCard
  \/ goToNextUnit
  \/ answer
  \/ speakMissed
  \/ firstCharTimerFires
  \/ karaokeTimerFires
  \/ dwellTimerFires
  \/ learnSpeakTimerFires
  \/ utteranceEnds

Spec == Init /\ [][Next]_vars

\* The program with a learner who stays out of learn mode.
NextExercise ==
  \/ startGlobalChallenge
  \/ goHome
  \/ answer
  \/ speakMissed
  \/ firstCharTimerFires
  \/ karaokeTimerFires
  \/ dwellTimerFires
  \/ utteranceEnds

SpecExercise == InitWith(ExerciseCatalogs) /\ [][NextExercise]_vars

\* The same learner with a catalog of at most two words.
SpecSmallPools == InitWith(SmallCatalogs) /\ [][NextExercise]_vars

\* The quick learner, with the two words of CatalogA.
NextHaste ==
  \/ startGlobalChallenge
  \/ goHome
  \/ answerInHaste
  \/ speakMissed
  \/ firstCharTimerFires
  \/ karaokeTimerFires
  \/ dwellTimerFires
  \/ utteranceEnds

SpecHaste == InitWith({CatalogA}) /\ [][NextHaste]_vars

\* The browser runs the callback of every timer that stays due: weak
\* fairness of the three timer callbacks of the exercise view.  Nothing is
\* assumed about the learner.
SpecExerciseFair ==
  /\ SpecExercise
  /\ WF_vars(firstCharTimerFires)
  /\ WF_vars(karaokeTimerFires)
  /\ WF_vars(dwellTimerFires)

----------------------------------------------------------------------------
(* Properties of the exercise run                                           *)

\* The word the current question asks for.
currentWord == shuffledWords[currentIndex + 1]

\* A step that submits an answer to an unanswered question: only
\* handleAnswer sets the answer state.
Submits == view = "exercise" /\ answeredCorrectly = Null
           /\ answeredCorrectly' # Null

\* C1: in the exercise view, submitting the option whose id is the current
\* word's id to an unanswered question adds exactly 1 to quizScore and sets
\* the answer state to correct; and once the question is answered, no step
\* that leaves the position where it is (a further handleAnswer among them)
\* changes quizScore, wrongAnswers, the answer state or the selected option.
C1_CorrectAnswerScoresOnce ==
  [][ /\ (Submits /\ selectedOptionId' = Some(currentWord.id))
           => (quizScore' = quizScore + 1 /\ answeredCorrectly' = Some(TRUE))
      /\ (view = "exercise" /\ view' = "exercise" /\ answeredCorrectly # Null
            /\ currentIndex' = currentIndex)
           => UNCHANGED <<quizScore, wrongAnswers, answeredCorrectly,
                          selectedOptionId>> ]_vars

\* C1: the second question of a run was answered correctly after the first
\* one was, and its 400 ms timeout has fired, so that the option buttons'
\* handler can run again.
C1_Witness ==
  /\ view = "exercise" /\ currentIndex = 1 /\ quizScore = 2
  /\ answeredCorrectly = Some(TRUE)
  /\ Untracked(timers) = {}

\* C2: submitting an option whose id differs from the current word's id to
\* an unanswered question appends exactly the current question's word at the
\* end of wrongAnswers, sets the answer state to incorrect and leaves
\* quizScore as it is.
C2_WrongAnswerRecorded ==
  [][ (Submits /\ selectedOptionId' # Some(currentWord.id))
        => /\ wrongAnswers' = Append(wrongAnswers, currentWord)
           /\ answeredCorrectly' = Some(FALSE)
           /\ quizScore' = quizScore ]_vars

\* C2: the second question was answered wrongly after the first one was.
C2_Witness ==
  /\ view = "exercise" /\ currentIndex = 1
  /\ answeredCorrectly = Some(FALSE)
  /\ Len(wrongAnswers) = 2 /\ wrongAnswers[2] = currentWord
  /\ wrongAnswers[1] # currentWord

\* The number of options whose id is id.
CountId(options, id) ==
  Cardinality({i \in 1..Len(options) : options[i].id = id})

\* A pool with more words than a question has options.
LargePool ==
  << Word("p1", <<"a">>, "e1"), Word("p2", <<"b">>, "e2"),
     Word("p3", <<"c">>, "e3"), Word("p4", <<"d">>, "e4"),
     Word("p5", <<"e">>, "e5") >>

\* What generateGlobalOptions makes of this pool, for each of its words.
LargePoolOptions ==
  \A i \in 1..Len(LargePool) :
    \A options \in optionsFrom(LargePool, LargePool[i]) :
      /\ CountId(options, LargePool[i].id) = 1
      /\ Len(options) = Min(1 + DistractorCount, Len(LargePool))

\* C3: whenever the view is exercise, quizOptions holds exactly one entry
\* with the id of shuffledWords[currentIndex], and 1 + 3 entries or, when the
\* pool of all words is smaller than that, as many as the pool has.  The
\* runs of the model draw on pools of two and three words; the options that
\* the same code makes of a pool of five words are covered beside them.
C3_OptionsHoldTheCorrectWordOnce ==
  /\ view = "exercise" =>
       /\ CountId(quizOptions, currentWord.id) = 1
       /\ Len(quizOptions) = Min(1 + DistractorCount, Len(allWords))
  /\ LargePoolOptions

\* C3: the options of a question that proceedQuiz advanced to.
C3_Witness ==
  /\ view = "exercise" /\ currentIndex = 2 /\ answeredCorrectly = Null
  /\ CountId(quizOptions, currentWord.id) = 1
  /\ Len(quizOptions) = Len(allWords)

\* The callbacks of the timers that handleAnswer schedules.
AnswerTimerFires ==
  firstCharTimerFires \/ karaokeTimerFires \/ dwellTimerFires

\* C4: while the learner is back at the main menu after goHome (every timer
\* then pending was scheduled by a question of an abandoned run), no
\* callback of the 400 ms timeout, of the per-character interval or of the
\* dwell timeout changes view, currentIndex, the answer state,
\* highlightedCharIndex, quizScore or quizOptions, or requests speech.
C4_NoCallbackAfterGoHome ==
  [][ (view = "main_menu" /\ AnswerTimerFires)
        => UNCHANGED <<view, currentIndex, answeredCorrectly,
                       highlightedCharIndex, quizScore, quizOptions,
                       speechQueue>> ]_vars

\* C5: in the result view the stars shown are the step function of
\* quizScore / length(shuffledWords): 3 at ratio 1, 2 from ratio 0.7,
\* 1 above ratio 0, else 0, whatever the length of the run.
C5_StarsFollowTheRunLength ==
  view = "result" => stars = StepRating(quizScore, Len(shuffledWords))

\* The position in shuffledWords of the k-th missed word.
MissedAt(k) ==
  CHOOSE i \in 1..Len(shuffledWords) : shuffledWords[i] = wrongAnswers[k]

\* The questions answered so far in the run.
Answered == currentIndex + (IF answeredCorrectly # Null THEN 1 ELSE 0)

\* C6: in the exercise view and in the result view, quizScore plus the
\* length of wrongAnswers is the number of questions answered so far
\* (currentIndex, plus 1 when the current question is answered), quizScore
\* lies between 0 and the length of the run, and wrongAnswers holds words of
\* answered questions, each once, in the order of their questions.
C6_ScorePlusMissedIsAnswered ==
  view \in {"exercise", "result"} =>
    /\ quizScore + Len(wrongAnswers) = Answered
    /\ 0 <= quizScore /\ quizScore <= Len(shuffledWords)
    /\ \A k \in 1..Len(wrongAnswers) :
         /\ \E i \in 1..Answered : shuffledWords[i] = wrongAnswers[k]
         /\ \A j \in 1..(k - 1) : MissedAt(j) < MissedAt(k)

\* C6: a finished run of three questions, the first and the last missed.
C6_Witness ==
  /\ view = "result" /\ Len(shuffledWords) = 3 /\ quizScore = 1
  /\ wrongAnswers = <<shuffledWords[1], shuffledWords[3]>>

\* C7: when the dwell timer fires while currentIndex is the last index of
\* shuffledWords, the view becomes result and quizScore, wrongAnswers and
\* currentIndex stay as they are.
C7_LastQuestionEndsTheRun ==
  [][ (dwellTimerFires /\ currentIndex = Len(shuffledWords) - 1)
        => (view' = "result"
            /\ UNCHANGED <<quizScore, wrongAnswers, currentIndex>>) ]_vars

\* C7: the result view of a run whose last question was answered correctly.
C7_Witness ==
  /\ view = "result" /\ currentIndex = Len(shuffledWords) - 1
  /\ answeredCorrectly = Some(TRUE) /\ quizScore = 2
  /\ Len(wrongAnswers) = 1

\* C8: a step taken in the exercise view sets a non-null answer state back
\* to null exactly when it adds 1 to currentIndex, and such a step sets
\* selectedOptionId to null as well.
C8_AnswerResetsWithThePosition ==
  [][ view = "exercise"
        => /\ (answeredCorrectly # Null /\ answeredCorrectly' = Null)
                <=> (currentIndex' = currentIndex + 1)
           /\ (currentIndex' = currentIndex + 1) => selectedOptionId' = Null
           /\ currentIndex' \in {currentIndex, currentIndex + 1} ]_vars

\* C8: the second question, unanswered, after the first one was missed.
C8_Witness ==
  /\ view = "exercise" /\ currentIndex = 1
  /\ answeredCorrectly = Null /\ selectedOptionId = Null
  /\ Len(wrongAnswers) = 1

\* What C9 says of the state after startGlobalChallenge.
StartedRun ==
  /\ view' = "exercise" /\ currentIndex' = 0 /\ quizScore' = 0
  /\ wrongAnswers' = <<>> /\ answeredCorrectly' = Null
  /\ highlightedCharIndex' = -1
  /\ \A t \in timers' : t.kind \notin {"dwell", "karaoke"}
  /\ Len(shuffledWords') = Min(QuizLength, Len(allWords))
  /\ \A i \in 1..Len(shuffledWords') :
       /\ \E j \in 1..Len(allWords) : shuffledWords'[i] = allWords[j]
       /\ \A j \in 1..(i - 1) : shuffledWords'[j] # shuffledWords'[i]
  /\ CountId(quizOptions', shuffledWords'[1].id) = 1
  /\ Len(quizOptions') = Min(1 + DistractorCount, Len(allWords))

\* C9: from the main menu and from the result view, every run of
\* startGlobalChallenge ends in the exercise view at currentIndex 0 with
\* quizScore 0, no wrongAnswers, no answer, no highlight, no dwell or
\* karaoke timer pending, min(10, pool) distinct words of the pool as
\* shuffledWords and the options of shuffledWords[0].
C9_StartResetsTheRun ==
  view \in {"main_menu", "result"}
    => ~ ENABLED (startGlobalChallenge /\ ~StartedRun)

\* The views C10 names.
GoHomeViews == {"unit_selection", "learn", "exercise", "result"}

\* What C10 says of the state after goHome.
WentHome ==
  /\ view' = "main_menu" /\ selectedUnit' = Null /\ showCelebration' = FALSE
  /\ \A t \in timers' : t.kind \notin {"dwell", "karaoke"}

\* C10: in each of the views unit_selection, learn, exercise and result
\* goHome can be taken, and every run of it ends in the main menu with no
\* selected unit, no celebration and no dwell or karaoke timer pending.
C10_GoHomeFromEveryView ==
  view \in GoHomeViews
    => (ENABLED goHome) /\ ~ ENABLED (goHome /\ ~WentHome)

\* C11: without a speech service every operation makes the transition it
\* makes with one: startGlobalChallenge ends in the exercise view and goHome
\* ends in the main menu.  (A failing audio engine is caught inside
\* playFeedbackSound and reaches no state.)
C11_SameTransitionsWithoutSpeech ==
  ~speechAvailable =>
    /\ view \in {"main_menu", "result"}
         => ~ ENABLED (startGlobalChallenge /\ view' # "exercise")
    /\ goHomeOffered => ~ ENABLED (goHome /\ view' # "main_menu")

\* The entries of options are pairwise different.
Distinct(options) ==
  \A i, j \in 1..Len(options) : i # j => options[i] # options[j]

\* C12: with a pool of fewer than 4 words, a pool of one word and an empty
\* pool among them, the exercise view can be rendered after every start and
\* every advance, and its options are the current word and as many different
\* other words as the pool has.
C12_SmallPoolsDoNotFail ==
  view = "exercise" =>
    /\ ~renderThrows
    /\ CountId(quizOptions, currentWord.id) = 1
    /\ Distinct(quizOptions)
    /\ Len(quizOptions) = Min(1 + DistractorCount, Len(allWords))

\* C13: once the learner has left the learn view or the exercise view for
\* the unit selection or the main menu (views whose own handlers never
\* speak), no utterance is playing or queued: none of the abandoned session
\* goes on and none starts.
C13_NavigationSilencesSpeech ==
  view \in {"main_menu", "unit_selection"} => speechQueue = <<>>

\* C14: at most one utterance is playing or queued in the speech service.
C14_OneUtteranceAtMost == Len(speechQueue) <= 1

\* C14: the second character of a word was spoken by the interval callback,
\* 1200 ms after the answer and 800 ms after its first character was.
C14_Witness ==
  /\ view = "exercise" /\ highlightedCharIndex = 1
  /\ speechQueue = <<Split(currentWord.text)[2]>>

\* C15: prevCard takes 1 from currentIndex when it is above 0 and changes
\* nothing when it is 0; and no step that stays in the exercise view lowers
\* currentIndex.
C15_OnlyPrevCardGoesBack ==
  [][ /\ prevCard => IF currentIndex > 0
                      THEN currentIndex' = currentIndex - 1
                      ELSE UNCHANGED vars
      /\ (view = "exercise" /\ view' = "exercise")
           => currentIndex' >= currentIndex ]_vars

\* C15: back at the first card of a unit of two, its text requested, while
\* the 300 ms timeout of startLearnTask is still pending.
C15_Witness ==
  /\ view = "learn" /\ selectedUnit # Null /\ currentIndex = 0
  /\ Len(Get(selectedUnit).words) = 2
  /\ speechQueue = <<Get(selectedUnit).words[1].text>>
  /\ \E t \in timers : t.kind = "learnSpeak"

\* C16: nextCard at the last index of the selected unit sets showCelebration
\* and leaves view (learn) and currentIndex as they are; at an earlier index
\* it adds 1 to currentIndex and leaves showCelebration unset.
C16_NextCardCelebratesAtTheEnd ==
  [][ nextCard =>
        IF currentIndex = Len(Get(selectedUnit).words) - 1
        THEN showCelebration' /\ view' = "learn"
             /\ currentIndex' = currentIndex
        ELSE currentIndex' = currentIndex + 1 /\ ~showCelebration'
             /\ view' = "learn" ]_vars

\* C16: the celebration of a unit of two words.
C16_Witness ==
  /\ view = "learn" /\ selectedUnit # Null /\ showCelebration
  /\ currentIndex = 1 /\ Len(Get(selectedUnit).words) = 2

C18_UnansweredQuestionHasNoHighlight ==
  (view = "exercise" /\ answeredCorrectly = Null)
    => highlightedCharIndex = -1

\* The timers handleAnswer scheduled for a question that are still pending.
PendingOfAnswer == {t \in timers : t.kind \in {"first", "karaoke", "dwell"}}

\* C19: no karaoke interval is pending in the result view, and while a
\* question is unanswered (its own timers not yet scheduled) no timer of an
\* earlier question is pending any more; so wherever the dwell timer leads,
\* to the next question or to the result view, the interval is gone.
C19_TimersEndWithTheirQuestion ==
  /\ view = "result" => \A t \in timers : t.kind # "karaoke"
  /\ (view = "exercise" /\ answeredCorrectly = Null) => PendingOfAnswer = {}

\* The dwell timers pending.
DwellPending == {t \in timers : t.kind = "dwell"}

\* A dwell timer is pending only for an answered question of the exercise
\* view, and never two at once.
DwellOnlyWhenAnswered ==
  /\ DwellPending # {} => view = "exercise" /\ answeredCorrectly # Null
  /\ Cardinality(DwellPending) <= 1

\* C20: in the exercise view the position moves on, or the view becomes
\* result, only when the dwell timer of an answered question fires;
\* proceedQuiz never runs for an unanswered question; a dwell timer is
\* pending only when view = exercise and the question is answered; and at
\* most one dwell timer is pending.
C20_OnlyTheDwellTimerMovesOn ==
  [][ /\ (view = "exercise"
           /\ \/ view' = "exercise" /\ currentIndex' # currentIndex
              \/ view' = "result")
          => (answeredCorrectly # Null /\ dwellTimerFires)
      /\ dwellTimerFires => (view = "exercise" /\ answeredCorrectly # Null)
      /\ DwellOnlyWhenAnswered' ]_vars

\* C20: the second question answered, its dwell timer pending.
C20_Witness ==
  /\ view = "exercise" /\ currentIndex = 1 /\ answeredCorrectly # Null
  /\ Cardinality(DwellPending) = 1

\* The longest run of the catalogs of SpecExercise: every word of CatalogE.
MaxRun == Len(CatalogE[1].words)

\* Question i of the run is shown and answered.
AnsweredAt(i) ==
  view = "exercise" /\ answeredCorrectly # Null /\ currentIndex = i

\* What follows an answer to question i: the next question, unanswered, or
\* the result view, or the main menu after goHome.
MovedOnFrom(i) ==
  \/ view = "exercise" /\ currentIndex = i + 1 /\ answeredCorrectly = Null
  \/ view = "result"
  \/ view = "main_menu"

\* The learner answers every question shown.
AnswersEveryQuestion ==
  (view = "exercise" /\ answeredCorrectly = Null)
    ~> (view # "exercise" \/ answeredCorrectly # Null)

\* C21: with the timers firing, every answer is followed by the next
\* question, unanswered, or by the result view, unless goHome leads to the
\* main menu; and when the learner answers every question shown, a run
\* leads to the result view unless goHome leads to the main menu.
C21_AnswersLeadToTheResult ==
  /\ \A i \in 0..(MaxRun - 1) : AnsweredAt(i) ~> MovedOnFrom(i)
  /\ AnswersEveryQuestion
       => (view = "exercise" ~> view \in {"result", "main_menu"})

\* C21: the result view after three answers, the last of them wrong, the
\* timers of the last question run or cleared.
C21_Witness ==
  /\ view = "result" /\ Len(shuffledWords) = MaxRun
  /\ quizScore = MaxRun - 1 /\ wrongAnswers = <<shuffledWords[MaxRun]>>
  /\ PendingOfAnswer = {}

\* A timer callback highlights index i: the 400 ms timeout (index 0) or a
\* run of the interval callback that has a character left (index step).
HighlightStep(i) ==
  \E t0 \in timers :
    /\ Due(t0)
    /\ \/ /\ t0.kind = "first" /\ i = 0
          /\ firstCharFires(Now(t0), Elapse(timers, t0.rem))
       \/ /\ t0.kind = "karaoke" /\ t0.step < Len(t0.chars) /\ i = t0.step
          /\ karaokeFires(Now(t0), Elapse(timers, t0.rem))

\* C22: while the question shown is answered, a callback that highlights
\* index i finds index i - 1 highlighted (nothing highlighted by this
\* question's timers when i = 0, which happens once), i is below the
\* character count of the correct word, and where a speech service exists
\* the request is for character i of the correct word.
C22_KaraokeStepsInOrder ==
  [][ \A i \in 0..(DwellDelay \div charInterval) :
        (HighlightStep(i) /\ view = "exercise" /\ answeredCorrectly # Null)
          => /\ highlightedCharIndex' = i
             /\ i < Len(Split(currentWord.text))
             /\ IF i = 0
                THEN \A t \in timers' :
                       /\ t.kind # "first"
                       /\ t.kind = "karaoke" => t.step = 1
                ELSE highlightedCharIndex = i - 1
             /\ speechAvailable
                  => speechQueue' = <<Split(currentWord.text)[i + 1]>> ]_vars

\* C22: the last character of the five-character word is highlighted and
\* requested, 4800 ms after the answer.
C22_Witness ==
  /\ view = "exercise" /\ answeredCorrectly # Null
  /\ Len(Split(currentWord.text)) = 5 /\ highlightedCharIndex = 4
  /\ speechQueue = <<Split(currentWord.text)[5]>>

\* C23: view = learn goes with appMode = learn and a selected unit;
\* view = unit_selection with appMode = learn; view = exercise or result
\* with appMode = exercise and no selected unit; and no step back from the
\* learn view to the unit selection changes appMode.
C23_ViewModeAndUnitAgree ==
  /\ view = "learn" => appMode = "learn" /\ selectedUnit # Null
  /\ view = "unit_selection" => appMode = "learn"
  /\ view \in {"exercise", "result"}
       => appMode = "exercise" /\ selectedUnit = Null
  /\ ~ ENABLED (backToUnits /\ appMode' # appMode)

\* C23: the unit selection after a step back from the learn view, which
\* was entered after a challenge run had been answered and left.
C23_Witness ==
  /\ view = "unit_selection" /\ selectedUnit # Null /\ appMode = "learn"
  /\ quizScore + Len(wrongAnswers) > 0

\* The unit after u in catalog order, the first one after the last.
UnitAfter(u) ==
  LET i == CHOOSE k \in 1..Len(UNITS) : UNITS[k] = u
  IN UNITS[IF i = Len(UNITS) THEN 1 ELSE i + 1]

\* C24: goToNextUnit leads to the learn view on the unit after the selected
\* one in catalog order (the first after the last), at currentIndex = 0
\* with showCelebration unset, and leaves quizScore, wrongAnswers and
\* shuffledWords as they were.
C24_NextUnitStartsAFreshSession ==
  [][ goToNextUnit =>
        /\ view' = "learn"
        /\ selectedUnit' = Some(UnitAfter(Get(selectedUnit)))
        /\ currentIndex' = 0
        /\ ~showCelebration'
        /\ UNCHANGED <<quizScore, wrongAnswers, shuffledWords>> ]_vars

\* C24: a fresh session on the first unit of two while the word of the
\* second is still being spoken and the first unit's 300 ms timeout is
\* pending, the score of an earlier challenge run kept.
C24_Witness ==
  /\ view = "learn" /\ Len(UNITS) = 2 /\ selectedUnit = Some(UNITS[1])
  /\ currentIndex = 0 /\ ~showCelebration
  /\ speechQueue = <<UNITS[2].words[1].text>>
  /\ \E t \in timers : t.kind = "learnSpeak" /\ t.chars = <<UNITS[1].words[1].text>>
  /\ quizScore + Len(wrongAnswers) > 0

====
